---- MODULE Spec2Model ----
(***************************************************************************)
(* Motion-control state machine of the stepper driver library:             *)
(*   motion_control/state.rs  update(), delay_left()                       *)
(*   stepper/step.rs          StepFuture::{new, poll, wait, release}       *)
(* The direction future (stepper/set_direction.rs) is modelled from its    *)
(* description: same phase shape as the step future, DIR pin and setup      *)
(* time instead of STEP pin and pulse length.                              *)
(*                                                                         *)
(* update() is modelled one loop iteration per action (pc = "loop"); the   *)
(* caller can act only between calls (pc = "caller").  Every fallible      *)
(* operation of the pins, the timer and the conversions is an input whose  *)
(* outcome is chosen with \E.                                              *)
(*                                                                         *)
(* Spec        the machine driven through update, every outcome possible   *)
(* FairSpec    the same with hardware that never fails, update called      *)
(*             again and again, timers that expire in the end              *)
(* FutureSpec  a StepFuture polled, waited on and released on its own      *)
(***************************************************************************)
EXTENDS Integers, Sequences, FiniteSets, TLC

VARIABLES
    state,              \* tag of motion_control::State ("None": no machine)
    payload,            \* resources held directly by the state (Idle, StepDelay)
    futRes,             \* resources held by the future inside the state
    futPhase,           \* phase of that future ("None" when there is none)
    futDirection,       \* SetDirectionFuture.direction
    delay,              \* State::Step.delay, an Option
    new_motion,         \* Option<Direction> owned by the caller
    profile,            \* delays the profile has yet to yield
    current_step,
    current_direction,
    stepPin,
    dirPin,
    timer,              \* [running, ticks]
    overflowChecks,     \* build with (debug) or without (release) overflow checks
    pc,                 \* "caller" (a call has returned) | "requested" | "loop";
                        \* of a future used alone: "future" | "waiting" | "released"
    result,             \* what the last update call returned
    lastFail,           \* the operation whose failure the last call reported
    lastPoll,           \* what the sub-operation polled last in this call reported
    call,               \* snapshot taken when the current/last call began
    iters,              \* loop iterations of the current/last call
    taken,              \* direction requests consumed by the current/last call
    hwTouched,          \* a pin or timer operation was attempted in this call
    pulse,              \* history of the current/last step future
    started,            \* ticks of the timer starts made for the current/last step
    conv,               \* the delay_left call made in this call: inputs, result
    dirPending,         \* a direction future was created and has not reported success
    dirFutures,         \* direction futures created so far
    dirRequests,        \* requests for a different direction consumed so far
    nreq,               \* requests the caller has injected
    repolls,            \* polls made of a step future that was already Finished
    init0               \* the values at construction

vars == <<state, payload, futRes, futPhase, futDirection, delay, new_motion,
          profile, current_step, current_direction, stepPin, dirPin, timer,
          overflowChecks, pc, result, lastFail, lastPoll, call, iters, taken,
          hwTouched, pulse, started, conv, dirPending, dirFutures, dirRequests,
          nreq, repolls, init0>>

(***************************************************************************)
(* Bounds                                                                  *)
(***************************************************************************)
MaxProfile == 2
MaxRequests == 1
\* polls of a finished step future that a caller of StepFuture makes
MaxPolls == 3

(***************************************************************************)
(* Types and parameters of the instantiation                               *)
(***************************************************************************)
Directions == {"Forward", "Backward"}
Resources == {"driver", "timer"}

None == <<>>
Some(x) == <<x>>

\* Step::PULSE_LENGTH and SetDirection::SETUP_TIME, in nanoseconds
PULSE_LENGTH == 10000
SETUP_TIME == 20000
\* Timer::Time: TryFrom<Nanoseconds>, for a timer that counts 100 ns ticks
NanosPerTick == 100
\* Convert: DelayToTicks<Profile::Delay>, for a profile that yields delays in
\* microseconds
TicksPerDelayUnit == 10
\* Convert::Ticks is an unsigned integer of this many values
TicksModulus == 65536

\* the delays a profile can yield: shorter than, equal to and longer than the pulse
Delays == {5, 10, 100}

NanosToTicks(ns) == ns \div NanosPerTick
delay_to_ticks(d) == d * TicksPerDelayUnit

\* a cast that loses the sign
Direction_as_i32_Unsigned(d) == 1

Direction_as_i32(d) == IF d = "Forward" THEN 1 ELSE -1

(***************************************************************************)
(* The countdown timer (embedded_hal::timer::nb::CountDown)                *)
(***************************************************************************)
TimerStart(t, ticks) == [running |-> TRUE, ticks |-> ticks]
TimerExpired(t) == [t EXCEPT !.running = FALSE]

\* log entries: <<operation, "ok" | "err" | "block">>
Did(log, op) == \E i \in 1..Len(log) : log[i] = <<op, "ok">>

(***************************************************************************)
(* StepFuture (stepper/step.rs)                                            *)
(***************************************************************************)
StepFuture_new(driver_timer) ==
    [res |-> driver_timer, phase |-> "Initial"]

\* the outcomes the pins, the conversion and the timer can give one poll
StepOutcomes(phase) ==
    CASE phase = "Initial" ->
           {"PinUnavailable", "Pin", "NanosecondsToTicks", "Timer", "Ok"}
      [] phase = "PulseStarted" ->
           {"WouldBlock", "TimerOther", "PinUnavailable", "Pin", "Ok"}
      [] OTHER -> {"Ok"}

\* a pin error that ends the future
StepPhaseAfterPinError_Finishes(phase) == "Finished"

\* the phase after `?` returned a pin error: the assignment to self.state is
\* not reached
StepPhaseAfterPinError(phase) == phase

\* a first poll that reports the pulse as done at once
StepPollInitial_Instant(pin, t, o) ==
    [phase |-> "Finished", res |-> "ReadyOk", err |-> "none",
     pin |-> pin, timer |-> t, log |-> <<>>]

\* StepFuture::poll in phase Initial
StepPollInitial(pin, t, o) ==
    CASE o = "PinUnavailable" ->
           [phase |-> StepPhaseAfterPinError("Initial"), res |-> "ReadyErr",
            err |-> "PinUnavailable",
            pin |-> pin, timer |-> t, log |-> <<<<"step", "err">>>>]
      [] o = "Pin" ->
           [phase |-> StepPhaseAfterPinError("Initial"), res |-> "ReadyErr",
            err |-> "Pin",
            pin |-> pin, timer |-> t, log |-> <<<<"set_high", "err">>>>]
      [] o = "NanosecondsToTicks" ->
           [phase |-> "Initial", res |-> "ReadyErr", err |-> "NanosecondsToTicks",
            pin |-> "high", timer |-> t,
            log |-> <<<<"set_high", "ok">>, <<"try_into", "err">>>>]
      [] o = "Timer" ->
           [phase |-> "Initial", res |-> "ReadyErr", err |-> "Timer",
            pin |-> "high", timer |-> t,
            log |-> <<<<"set_high", "ok">>, <<"timer.start", "err">>>>]
      [] OTHER ->
           [phase |-> "PulseStarted", res |-> "Pending", err |-> "none",
            pin |-> "high", timer |-> TimerStart(t, NanosToTicks(PULSE_LENGTH)),
            log |-> <<<<"set_high", "ok">>, <<"timer.start", "ok">>>>]

\* a timer error that sends the future back to its first phase
StepPhaseAfterTimerError_Restarts == "Initial"

\* the phase the future moves to when timer.wait() reports a real error
StepPhaseAfterTimerError == "Finished"

\* StepFuture::poll in phase PulseStarted
StepPollPulseStarted(pin, t, o) ==
    CASE o = "WouldBlock" ->
           [phase |-> "PulseStarted", res |-> "Pending", err |-> "none",
            pin |-> pin, timer |-> t, log |-> <<<<"timer.wait", "block">>>>]
      [] o = "TimerOther" ->
           [phase |-> StepPhaseAfterTimerError, res |-> "ReadyErr", err |-> "Timer",
            pin |-> pin, timer |-> t, log |-> <<<<"timer.wait", "err">>>>]
      [] o = "PinUnavailable" ->
           [phase |-> StepPhaseAfterPinError("PulseStarted"), res |-> "ReadyErr",
            err |-> "PinUnavailable",
            pin |-> pin, timer |-> TimerExpired(t),
            log |-> <<<<"timer.wait", "ok">>, <<"step", "err">>>>]
      [] o = "Pin" ->
           [phase |-> StepPhaseAfterPinError("PulseStarted"), res |-> "ReadyErr",
            err |-> "Pin",
            pin |-> pin, timer |-> TimerExpired(t),
            log |-> <<<<"timer.wait", "ok">>, <<"set_low", "err">>>>]
      [] OTHER ->
           [phase |-> "Finished", res |-> "ReadyOk", err |-> "none",
            pin |-> "low", timer |-> TimerExpired(t),
            log |-> <<<<"timer.wait", "ok">>, <<"set_low", "ok">>>>]

\* a finished future that drives STEP low again on every poll
StepPollFinished_DrivesLow(pin, t) ==
    [phase |-> "Finished", res |-> "ReadyOk", err |-> "none",
     pin |-> "low", timer |-> t, log |-> <<<<"set_low", "ok">>>>]

\* StepFuture::poll in phase Finished
StepPollFinished(pin, t) ==
    [phase |-> "Finished", res |-> "ReadyOk", err |-> "none",
     pin |-> pin, timer |-> t, log |-> <<>>]

StepFuture_poll(phase, pin, t, o) ==
    CASE phase = "Initial" -> StepPollInitial(pin, t, o)
      [] phase = "PulseStarted" -> StepPollPulseStarted(pin, t, o)
      [] OTHER -> StepPollFinished(pin, t)

\* a release that hands back the driver only
StepFuture_release_DropsTimer(res) == res \ {"timer"}

StepFuture_release(res) == res

(***************************************************************************)
(* SetDirectionFuture: the same shape, on the DIR pin with SETUP_TIME      *)
(***************************************************************************)
SetDirectionFuture_new(direction, driver_timer) ==
    [res |-> driver_timer, phase |-> "Initial", direction |-> direction]

DirOutcomes(phase) ==
    CASE phase = "Initial" ->
           {"PinUnavailable", "Pin", "NanosecondsToTicks", "Timer", "Ok"}
      [] phase = "DirectionSet" -> {"WouldBlock", "TimerOther", "Ok"}
      [] OTHER -> {"Ok"}

DirLevel(direction) == IF direction = "Forward" THEN "high" ELSE "low"

SetDirectionFuture_poll(phase, direction, pin, t, o) ==
    CASE phase = "Initial" /\ o = "PinUnavailable" ->
           [phase |-> "Initial", res |-> "ReadyErr", err |-> "PinUnavailable",
            pin |-> pin, timer |-> t, log |-> <<<<"dir", "err">>>>]
      [] phase = "Initial" /\ o = "Pin" ->
           [phase |-> "Initial", res |-> "ReadyErr", err |-> "Pin",
            pin |-> pin, timer |-> t, log |-> <<<<"set_dir", "err">>>>]
      [] phase = "Initial" /\ o = "NanosecondsToTicks" ->
           [phase |-> "Initial", res |-> "ReadyErr", err |-> "NanosecondsToTicks",
            pin |-> DirLevel(direction), timer |-> t,
            log |-> <<<<"set_dir", "ok">>, <<"try_into", "err">>>>]
      [] phase = "Initial" /\ o = "Timer" ->
           [phase |-> "Initial", res |-> "ReadyErr", err |-> "Timer",
            pin |-> DirLevel(direction), timer |-> t,
            log |-> <<<<"set_dir", "ok">>, <<"timer.start", "err">>>>]
      [] phase = "Initial" ->
           [phase |-> "DirectionSet", res |-> "Pending", err |-> "none",
            pin |-> DirLevel(direction),
            timer |-> TimerStart(t, NanosToTicks(SETUP_TIME)),
            log |-> <<<<"set_dir", "ok">>, <<"timer.start", "ok">>>>]
      [] phase = "DirectionSet" /\ o = "WouldBlock" ->
           [phase |-> "DirectionSet", res |-> "Pending", err |-> "none",
            pin |-> pin, timer |-> t, log |-> <<<<"timer.wait", "block">>>>]
      [] phase = "DirectionSet" /\ o = "TimerOther" ->
           [phase |-> "Finished", res |-> "ReadyErr", err |-> "Timer",
            pin |-> pin, timer |-> t, log |-> <<<<"timer.wait", "err">>>>]
      [] phase = "DirectionSet" ->
           [phase |-> "Finished", res |-> "ReadyOk", err |-> "none",
            pin |-> pin, timer |-> TimerExpired(t),
            log |-> <<<<"timer.wait", "ok">>>>]
      [] OTHER ->
           [phase |-> "Finished", res |-> "ReadyOk", err |-> "none",
            pin |-> pin, timer |-> t, log |-> <<>>]

SetDirectionFuture_release(res) == res

(***************************************************************************)
(* delay_left (motion_control/state.rs)                                    *)
(***************************************************************************)
\* a delay_left that converts the pulse length before the delay
delay_left_PulseFirst(d, pulse_length, cd, cp, checks) ==
    IF cp = "Err" THEN [tag |-> "NanosecondsToTicks", ticks |-> 0]
    ELSE IF cd = "Err" THEN [tag |-> "DelayToTicks", ticks |-> 0]
    ELSE LET dt == delay_to_ticks(d)
             pt == NanosToTicks(pulse_length)
         IN  IF dt >= pt THEN [tag |-> "Ok", ticks |-> dt - pt]
             ELSE IF checks THEN [tag |-> "Panic", ticks |-> 0]
             ELSE [tag |-> "Ok", ticks |-> dt + TicksModulus - pt]

\* cd, cp: whether convert.delay_to_ticks and pulse_length.try_into succeed.
\* The subtraction is the one of Convert::Ticks: below zero it wraps in a build
\* without overflow checks and panics in a build with them.
delay_left(d, pulse_length, cd, cp, checks) ==
    IF cd = "Err" THEN [tag |-> "DelayToTicks", ticks |-> 0]
    ELSE IF cp = "Err" THEN [tag |-> "NanosecondsToTicks", ticks |-> 0]
    ELSE LET dt == delay_to_ticks(d)
             pt == NanosToTicks(pulse_length)
         IN  IF dt >= pt THEN [tag |-> "Ok", ticks |-> dt - pt]
             ELSE IF checks THEN [tag |-> "Panic", ticks |-> 0]
             ELSE [tag |-> "Ok", ticks |-> dt + TicksModulus - pt]

(***************************************************************************)
(* Construction and the caller                                             *)
(***************************************************************************)
RECURSIVE SeqsUpTo(_, _)
SeqsUpTo(S, n) ==
    IF n = 0 THEN {<<>>}
    ELSE LET shorter == SeqsUpTo(S, n - 1)
         IN  shorter \cup {Append(q, x) : q \in shorter, x \in S}


NoPulse ==
    [high |-> FALSE, expired |-> FALSE, low |-> FALSE, counted |-> FALSE,
     pinErr |-> {}, timerErr |-> FALSE]
NoFail == [inner |-> "none", op |-> "none"]
NoPoll == [res |-> "none", op |-> "none", log |-> <<>>]
NoConv == [d |-> 0, cd |-> "none", cp |-> "none", tag |-> "none", ticks |-> 0]

Init ==
    /\ state = "Idle"
    /\ payload = Resources
    /\ futRes = {}
    /\ futPhase = "None"
    /\ futDirection = "None"
    /\ delay = None
    /\ new_motion = None
    /\ profile \in SeqsUpTo(Delays, MaxProfile)
    /\ current_step = 0
    /\ current_direction \in Directions
    /\ stepPin = "low"
    /\ dirPin = "low"
    /\ timer = [running |-> FALSE, ticks |-> 0]
    /\ overflowChecks \in BOOLEAN
    /\ pc = "caller"
    /\ result = "none"
    /\ lastFail = NoFail
    /\ lastPoll = NoPoll
    /\ call = [state |-> "Idle", phase |-> "None", req |-> None, step |-> 0,
               dir |-> current_direction, profile |-> profile,
               afterFallback |-> FALSE]
    /\ iters = 0
    /\ taken = 0
    /\ hwTouched = FALSE
    /\ pulse = NoPulse
    /\ started = <<>>
    /\ conv = NoConv
    /\ dirPending = FALSE
    /\ dirFutures = 0
    /\ dirRequests = 0
    /\ nreq = 0
    /\ repolls = 0
    /\ init0 = [step |-> current_step, dir |-> current_direction,
                n |-> Len(profile)]

\* the caller stores a direction request between two calls of update
RequestMotion(d) ==
    /\ pc \in {"caller", "requested"}
    /\ nreq < MaxRequests
    /\ pc' = "requested"
    /\ new_motion' = Some(d)
    /\ nreq' = nreq + 1
    /\ UNCHANGED <<state, payload, futRes, futPhase, futDirection, delay, profile,
                   current_step, current_direction, stepPin, dirPin, timer,
                   overflowChecks, result, lastFail, lastPoll, call, iters,
                   taken, hwTouched, pulse, started, dirPending, dirFutures,
                   dirRequests, init0, conv,
                   repolls>>

\* the last call reported a failure of the step's remaining delay (conversion or
\* timer start)
FellBack ==
    \/ result = "Err(TimeConversion)"
    \/ result = "Err(StepDelay)" /\ lastFail.op = "timer.start"

\* the caller calls update(state, &mut new_motion, &mut profile, ...)
UpdateCall ==
    /\ pc \in {"caller", "requested"}
    /\ pc' = "loop"
    /\ result' = "none"
    /\ lastFail' = NoFail
    /\ lastPoll' = NoPoll
    /\ call' = [state |-> state, phase |-> futPhase, req |-> new_motion,
                step |-> current_step, dir |-> current_direction,
                profile |-> profile, afterFallback |-> FellBack]
    /\ iters' = 0
    /\ taken' = 0
    /\ hwTouched' = FALSE
    /\ conv' = NoConv
    /\ UNCHANGED <<state, payload, futRes, futPhase, futDirection, delay,
                   new_motion, profile, current_step, current_direction, stepPin,
                   dirPin, timer, overflowChecks, pulse, started, dirPending,
                   dirFutures, dirRequests, nreq, init0, repolls>>

(***************************************************************************)
(* update(): one loop iteration per action                                 *)
(***************************************************************************)
Continue == pc' = "loop" /\ UNCHANGED <<result, lastFail>>
Return(r, f) == pc' = "caller" /\ result' = r /\ lastFail' = f

FailedOp(log) ==
    IF log # <<>> /\ log[Len(log)][2] = "err" THEN log[Len(log)][1] ELSE "none"

\* a panic unwinds out of update: the state that was moved in is dropped and
\* the caller is left with State::Invalid
Panic ==
    /\ state' = "Invalid"
    /\ payload' = {}
    /\ futRes' = {}
    /\ futPhase' = "None"
    /\ futDirection' = "None"
    /\ delay' = None
    /\ pc' = "caller"
    /\ result' = "panic"
    /\ lastFail' = NoFail

\* a comparison that never finds the directions equal
SameDirection_Never(direction, current) == FALSE

\* if direction == *current_direction
SameDirection(direction, current) == direction = current

\* the assignment left out
TakeDirection_Keeps(direction, current) == current

\* *current_direction = direction, made when the direction future is created
TakeDirection(direction, current) == direction

\* State::Idle, request for the current direction
IdleSameDirection ==
    /\ pc = "loop" /\ state = "Idle"
    /\ new_motion # None
    /\ SameDirection(Head(new_motion), current_direction)
    /\ new_motion' = None
    /\ state' = "Idle"
    /\ payload' = payload
    /\ iters' = iters + 1
    /\ taken' = taken + 1
    /\ Continue
    /\ UNCHANGED <<futRes, futPhase, futDirection, delay, profile, current_step,
                   current_direction, stepPin, dirPin, timer, overflowChecks,
                   lastPoll, call, hwTouched, pulse, started, dirPending,
                   dirFutures, dirRequests, nreq, init0, conv,
                   repolls>>

\* State::Idle, request for another direction
IdleNewDirection ==
    /\ pc = "loop" /\ state = "Idle"
    /\ new_motion # None
    /\ ~SameDirection(Head(new_motion), current_direction)
    /\ LET direction == Head(new_motion)
           future == SetDirectionFuture_new(direction, payload)
       IN  /\ new_motion' = None
           /\ state' = "SetDirection"
           /\ futRes' = future.res
           /\ futPhase' = future.phase
           /\ futDirection' = future.direction
           /\ payload' = {}
           /\ current_direction' = TakeDirection(direction, current_direction)
    /\ iters' = iters + 1
    /\ taken' = taken + 1
    /\ dirPending' = TRUE
    /\ dirFutures' = dirFutures + 1
    /\ dirRequests' = dirRequests + 1
    /\ Continue
    /\ UNCHANGED <<delay, profile, current_step, stepPin, dirPin, timer,
                   overflowChecks, lastPoll, call, hwTouched, pulse, started,
                   nreq, init0, conv,
                   repolls>>

\* State::Idle, no request, the profile yields a delay
IdleNextDelay ==
    /\ pc = "loop" /\ state = "Idle"
    /\ new_motion = None
    /\ profile # <<>>
    /\ LET future == StepFuture_new(payload)
       IN  /\ state' = "Step"
           /\ futRes' = future.res
           /\ futPhase' = future.phase
           /\ payload' = {}
           /\ delay' = Some(Head(profile))
    /\ profile' = Tail(profile)
    /\ iters' = iters + 1
    /\ pulse' = NoPulse
    /\ started' = <<>>
    /\ conv' = NoConv
    /\ Continue
    /\ UNCHANGED <<futDirection, new_motion, current_step, current_direction,
                   stepPin, dirPin, timer, overflowChecks, lastPoll, call, taken,
                   hwTouched, dirPending, dirFutures, dirRequests, nreq, init0, repolls>>

\* an idle machine that reports busy
IdleNothing_Busy ==
    /\ pc = "loop" /\ state = "Idle"
    /\ new_motion = None
    /\ profile = <<>>
    /\ state' = "Idle"
    /\ payload' = payload
    /\ iters' = iters + 1
    /\ Return("Ok(true)", NoFail)
    /\ UNCHANGED <<futRes, futPhase, futDirection, delay, new_motion, profile,
                   current_step, current_direction, stepPin, dirPin, timer,
                   overflowChecks, lastPoll, call, taken, hwTouched, pulse,
                   started, dirPending, dirFutures, dirRequests, nreq, init0, conv,
                   repolls>>

\* State::Idle, no request, the profile yields nothing
IdleNothing ==
    /\ pc = "loop" /\ state = "Idle"
    /\ new_motion = None
    /\ profile = <<>>
    /\ state' = "Idle"
    /\ payload' = payload
    /\ iters' = iters + 1
    /\ Return("Ok(false)", NoFail)
    /\ UNCHANGED <<futRes, futPhase, futDirection, delay, new_motion, profile,
                   current_step, current_direction, stepPin, dirPin, timer,
                   overflowChecks, lastPoll, call, taken, hwTouched, pulse,
                   started, dirPending, dirFutures, dirRequests, nreq, init0, conv,
                   repolls>>

(* State::SetDirection(future) *)

\* Poll::Ready(Ok(())): release the future, back to Idle, loop again
SetDirectionReady(r) ==
    /\ state' = "Idle"
    /\ payload' = SetDirectionFuture_release(futRes)
    /\ futRes' = {}
    /\ futPhase' = "None"
    /\ futDirection' = "None"
    /\ dirPending' = FALSE
    /\ Continue

\* an error that gives the resources back to Idle
SetDirectionFailed_GoesIdle(r) ==
    /\ state' = "Idle"
    /\ payload' = SetDirectionFuture_release(futRes)
    /\ futRes' = {}
    /\ futPhase' = "None"
    /\ futDirection' = "None"
    /\ Return("Err(SetDirection)", [inner |-> r.err, op |-> FailedOp(r.log)])
    /\ UNCHANGED dirPending

\* Poll::Ready(Err(err)): report it, the state stays as it is
SetDirectionFailed(r) ==
    /\ state' = "SetDirection"
    /\ futPhase' = r.phase
    /\ Return("Err(SetDirection)", [inner |-> r.err, op |-> FailedOp(r.log)])
    /\ UNCHANGED <<payload, futRes, futDirection, dirPending>>

\* Poll::Pending
SetDirectionPending(r) ==
    /\ state' = "SetDirection"
    /\ futPhase' = r.phase
    /\ Return("Ok(true)", NoFail)
    /\ UNCHANGED <<payload, futRes, futDirection, dirPending>>

SetDirectionArm(o) ==
    /\ pc = "loop" /\ state = "SetDirection"
    /\ LET r == SetDirectionFuture_poll(futPhase, futDirection, dirPin, timer, o)
       IN  /\ dirPin' = r.pin
           /\ timer' = r.timer
           /\ lastPoll' = [res |-> r.res, op |-> FailedOp(r.log), log |-> r.log]
           /\ hwTouched' = (hwTouched \/ r.log # <<>>)
           /\ CASE r.res = "ReadyOk" -> SetDirectionReady(r)
                [] r.res = "ReadyErr" -> SetDirectionFailed(r)
                [] OTHER -> SetDirectionPending(r)
    /\ iters' = iters + 1
    /\ UNCHANGED <<delay, new_motion, profile, current_step, current_direction,
                   stepPin, overflowChecks, call, taken, pulse, started,
                   dirFutures, dirRequests, nreq, init0, conv,
                   repolls>>

(* State::Step { future, delay } *)

\* a conversion failure that keeps the finished future for another try
StepConversionFailed_StaysStep(r, left) ==
    /\ state' = "Step"
    /\ futPhase' = r.phase
    /\ timer' = r.timer
    /\ Return("Err(TimeConversion)",
              [inner |-> left.tag,
               op |-> IF left.tag = "DelayToTicks" THEN "delay_to_ticks"
                      ELSE "try_into"])
    /\ UNCHANGED <<payload, futRes, futDirection, delay>>

\* delay_left failed: back to Idle with the released resources, report it
StepConversionFailed(r, left) ==
    /\ state' = "Idle"
    /\ payload' = StepFuture_release(futRes)
    /\ futRes' = {}
    /\ futPhase' = "None"
    /\ delay' = None
    /\ timer' = r.timer
    /\ Return("Err(TimeConversion)",
              [inner |-> left.tag,
               op |-> IF left.tag = "DelayToTicks" THEN "delay_to_ticks"
                      ELSE "try_into"])
    /\ UNCHANGED futDirection

\* timer.start(delay_left) failed: back to Idle, report it
StepTimerStartFailed(r) ==
    /\ state' = "Idle"
    /\ payload' = StepFuture_release(futRes)
    /\ futRes' = {}
    /\ futPhase' = "None"
    /\ delay' = None
    /\ timer' = r.timer
    /\ Return("Err(StepDelay)", [inner |-> "Timer", op |-> "timer.start"])
    /\ UNCHANGED futDirection

\* a timer started with the whole delay, the pulse not taken off
StepDelayStarted_WholeDelay(r, left) ==
    /\ state' = "StepDelay"
    /\ payload' = StepFuture_release(futRes)
    /\ futRes' = {}
    /\ futPhase' = "None"
    /\ delay' = None
    /\ timer' = TimerStart(r.timer, left.ticks + NanosToTicks(PULSE_LENGTH))
    /\ Continue
    /\ UNCHANGED futDirection

\* timer.start(delay_left) succeeded: wait out the rest of the delay
StepDelayStarted(r, left) ==
    /\ state' = "StepDelay"
    /\ payload' = StepFuture_release(futRes)
    /\ futRes' = {}
    /\ futPhase' = "None"
    /\ delay' = None
    /\ timer' = TimerStart(r.timer, left.ticks)
    /\ Continue
    /\ UNCHANGED futDirection

\* Poll::Ready(Ok(())): count the step, then start the rest of the delay.
\* ts: whether timer.start succeeds.  The counter is an i32; the profiles of
\* this model keep it far from the limits of one.
StepReady(r, left, ts) ==
    /\ current_step' = current_step + Direction_as_i32(current_direction)
    /\ CASE left.tag \in {"DelayToTicks", "NanosecondsToTicks"} ->
              StepConversionFailed(r, left)
         [] left.tag = "Panic" -> Panic /\ timer' = r.timer
         [] left.tag = "Ok" /\ ts = "Err" -> StepTimerStartFailed(r)
         [] OTHER -> StepDelayStarted(r, left)

\* a step error that hands Invalid back to the caller
StepFailed_Poisons(r) ==
    /\ state' = "Invalid"
    /\ futPhase' = r.phase
    /\ timer' = r.timer
    /\ Return("Err(Step)", [inner |-> r.err, op |-> FailedOp(r.log)])
    /\ UNCHANGED <<payload, futRes, futDirection, delay, current_step>>

\* Poll::Ready(Err(err)): report it, the state stays as it is
StepFailed(r) ==
    /\ state' = "Step"
    /\ futPhase' = r.phase
    /\ timer' = r.timer
    /\ Return("Err(Step)", [inner |-> r.err, op |-> FailedOp(r.log)])
    /\ UNCHANGED <<payload, futRes, futDirection, delay, current_step>>

\* Poll::Pending
StepPending(r) ==
    /\ state' = "Step"
    /\ futPhase' = r.phase
    /\ timer' = r.timer
    /\ Return("Ok(true)", NoFail)
    /\ UNCHANGED <<payload, futRes, futDirection, delay, current_step>>

\* cd, cp: whether the two conversions of delay_left succeed
StepArm(o, cd, cp, ts) ==
    /\ pc = "loop" /\ state = "Step"
    /\ LET r == StepFuture_poll(futPhase, stepPin, timer, o)
           left == delay_left(Head(delay), PULSE_LENGTH, cd, cp, overflowChecks)
       IN  /\ stepPin' = r.pin
           /\ lastPoll' = [res |-> r.res, op |-> FailedOp(r.log), log |-> r.log]
           /\ CASE r.res = "ReadyOk" -> StepReady(r, left, ts)
                [] r.res = "ReadyErr" -> StepFailed(r)
                [] OTHER -> StepPending(r)
           /\ hwTouched' = (hwTouched \/ r.log # <<>>
                              \/ (r.res = "ReadyOk" /\ left.tag = "Ok"))
           /\ pulse' = [high |-> pulse.high \/ Did(r.log, "set_high"),
                        expired |-> pulse.expired \/ Did(r.log, "timer.wait"),
                        low |-> pulse.low \/ Did(r.log, "set_low"),
                        counted |-> pulse.counted \/ current_step' # current_step,
                        pinErr |-> pulse.pinErr \cup
                                     ({FailedOp(r.log)} \cap {"set_high", "set_low"}),
                        timerErr |-> pulse.timerErr \/ FailedOp(r.log) = "timer.wait"]
           /\ started' = IF Did(r.log, "timer.start") \/ state' = "StepDelay"
                         THEN Append(started, timer'.ticks)
                         ELSE started
           /\ conv' = IF r.res = "ReadyOk"
                      THEN [d |-> Head(delay), cd |-> cd, cp |-> cp,
                            tag |-> left.tag, ticks |-> left.ticks]
                      ELSE conv
    /\ iters' = iters + 1
    /\ UNCHANGED <<new_motion, profile, current_direction, dirPin,
                   overflowChecks, call, taken, dirPending, dirFutures,
                   dirRequests, nreq, init0, repolls>>

(* State::StepDelay { driver, timer } *)

\* Ok(()): the delay is over, back to Idle, loop again
StepDelayElapsed ==
    /\ timer' = TimerExpired(timer)
    /\ state' = "Idle"
    /\ payload' = payload
    /\ Continue

\* a running delay reported as the end of the motion
StepDelayRunning_ReportsDone ==
    /\ timer' = timer
    /\ state' = "StepDelay"
    /\ payload' = payload
    /\ Return("Ok(false)", NoFail)

\* Err(nb::Error::WouldBlock)
StepDelayRunning ==
    /\ timer' = timer
    /\ state' = "StepDelay"
    /\ payload' = payload
    /\ Return("Ok(true)", NoFail)

\* a timer error that abandons the delay
StepDelayFailed_GoesIdle ==
    /\ timer' = timer
    /\ state' = "Idle"
    /\ payload' = payload
    /\ Return("Err(StepDelay)", [inner |-> "Timer", op |-> "timer.wait"])

\* Err(nb::Error::Other(err)): report it, the state stays as it is
StepDelayFailed ==
    /\ timer' = timer
    /\ state' = "StepDelay"
    /\ payload' = payload
    /\ Return("Err(StepDelay)", [inner |-> "Timer", op |-> "timer.wait"])

StepDelayArm(o) ==
    /\ pc = "loop" /\ state = "StepDelay"
    /\ hwTouched' = TRUE
    /\ lastPoll' = [res |-> o,
                    op |-> IF o = "WaitErr" THEN "timer.wait" ELSE "none",
                    log |-> <<<<"timer.wait",
                                CASE o = "WaitOk" -> "ok"
                                  [] o = "WouldBlock" -> "block"
                                  [] OTHER -> "err">>>>]
    /\ CASE o = "WaitOk" -> StepDelayElapsed
         [] o = "WouldBlock" -> StepDelayRunning
         [] OTHER -> StepDelayFailed
    /\ iters' = iters + 1
    /\ UNCHANGED <<futRes, futPhase, futDirection, delay, new_motion, profile,
                   current_step, current_direction, stepPin, dirPin,
                   overflowChecks, call, taken, pulse, started, dirPending,
                   dirFutures, dirRequests, nreq, init0, conv,
                   repolls>>

\* an Invalid arm that recovers to Idle instead of panicking
InvalidArm_Recovers ==
    /\ pc = "loop" /\ state = "Invalid"
    /\ state' = "Idle"
    /\ payload' = Resources
    /\ futRes' = {}
    /\ futPhase' = "None"
    /\ futDirection' = "None"
    /\ delay' = None
    /\ Return("Ok(false)", NoFail)
    /\ iters' = iters + 1
    /\ UNCHANGED <<new_motion, profile, current_step, current_direction, stepPin,
                   dirPin, timer, overflowChecks, lastPoll, call, taken,
                   hwTouched, pulse, started, dirPending, dirFutures,
                   dirRequests, nreq, init0, conv,
                   repolls>>

\* State::Invalid: panic!("Invalid internal state, caused by a previous panic.")
InvalidArm ==
    /\ pc = "loop" /\ state = "Invalid"
    /\ Panic
    /\ iters' = iters + 1
    /\ UNCHANGED <<new_motion, profile, current_step, current_direction, stepPin,
                   dirPin, timer, overflowChecks, lastPoll, call, taken,
                   hwTouched, pulse, started, dirPending, dirFutures,
                   dirRequests, nreq, init0, conv,
                   repolls>>

Results == {"Ok", "Err"}
WaitOutcomes == {"WaitOk", "WouldBlock", "WaitErr"}

Next ==
    \/ \E d \in Directions : RequestMotion(d)
    \/ UpdateCall
    \/ IdleSameDirection
    \/ IdleNewDirection
    \/ IdleNextDelay
    \/ IdleNothing
    \/ \E o \in DirOutcomes(futPhase) : SetDirectionArm(o)
    \/ \E o \in StepOutcomes(futPhase), cd \in Results, cp \in Results,
          ts \in Results : StepArm(o, cd, cp, ts)
    \/ \E o \in WaitOutcomes : StepDelayArm(o)
    \/ InvalidArm

Spec == Init /\ [][Next]_vars

(***************************************************************************)
(* The machine with hardware that never fails: no pin, timer or conversion *)
(* error; a started timer reports WouldBlock for a while and then expiry;  *)
(* the caller keeps calling update.                                        *)
(***************************************************************************)
NoFailStep(phase) == StepOutcomes(phase) \cap {"Ok", "WouldBlock"}
NoFailDir(phase) == DirOutcomes(phase) \cap {"Ok", "WouldBlock"}
NoFailWait == {"WaitOk", "WouldBlock"}

FairNext ==
    \/ \E d \in Directions : RequestMotion(d)
    \/ UpdateCall
    \/ IdleSameDirection
    \/ IdleNewDirection
    \/ IdleNextDelay
    \/ IdleNothing
    \/ \E o \in NoFailDir(futPhase) : SetDirectionArm(o)
    \/ \E o \in NoFailStep(futPhase) : StepArm(o, "Ok", "Ok", "Ok")
    \/ \E o \in NoFailWait : StepDelayArm(o)
    \/ InvalidArm

\* the caller calls update again and again; an iteration of the loop that can
\* run does; a timer that is waited on again and again reports expiry
Fairness ==
    /\ WF_vars(UpdateCall)
    /\ WF_vars(IdleSameDirection \/ IdleNewDirection \/ IdleNextDelay
                  \/ IdleNothing)
    /\ SF_vars(SetDirectionArm("Ok"))
    /\ SF_vars(StepArm("Ok", "Ok", "Ok", "Ok"))
    /\ SF_vars(StepDelayArm("WaitOk"))
    /\ WF_vars(InvalidArm)

FairSpec == Init /\ [][FairNext]_vars /\ Fairness

(***************************************************************************)
(* A StepFuture used on its own (stepper/step.rs): the caller polls it,    *)
(* or calls wait(), which polls in a loop until the future is ready, and   *)
(* may release it.  Every outcome of the pin, the conversion and the timer *)
(* can happen.                                                             *)
(***************************************************************************)
FutureInit ==
    /\ state = "None"
    /\ payload = {}
    /\ futRes = StepFuture_new(Resources).res
    /\ futPhase = StepFuture_new(Resources).phase
    /\ futDirection = "None"
    /\ delay = None
    /\ new_motion = None
    /\ profile = <<>>
    /\ current_step = 0
    /\ current_direction = "Forward"
    /\ stepPin \in {"low", "high"}
    /\ dirPin = "low"
    /\ timer \in {[running |-> FALSE, ticks |-> t] :
                     t \in {0, NanosToTicks(SETUP_TIME)}}
    /\ overflowChecks = FALSE
    /\ pc = "future"
    /\ result = "none"
    /\ lastFail = NoFail
    /\ lastPoll = NoPoll
    /\ call = [state |-> "None", phase |-> "Initial", req |-> None, step |-> 0,
               dir |-> current_direction, profile |-> profile,
               afterFallback |-> FALSE]
    /\ iters = 0
    /\ taken = 0
    /\ hwTouched = FALSE
    /\ pulse = NoPulse
    /\ started = <<>>
    /\ conv = NoConv
    /\ dirPending = FALSE
    /\ dirFutures = 0
    /\ dirRequests = 0
    /\ nreq = 0
    /\ repolls = 0
    /\ init0 = [step |-> 0, dir |-> current_direction, n |-> 0]

\* one call of StepFuture::poll
PollOnce(o) ==
    /\ futPhase \in {"Initial", "PulseStarted", "Finished"}
    /\ futPhase = "Finished" => repolls < MaxPolls
    /\ LET r == StepFuture_poll(futPhase, stepPin, timer, o)
       IN  /\ futPhase' = r.phase
           /\ stepPin' = r.pin
           /\ timer' = r.timer
           /\ lastPoll' = [res |-> r.res, op |-> FailedOp(r.log), log |-> r.log]
    /\ repolls' = IF futPhase = "Finished" THEN repolls + 1 ELSE repolls
    /\ UNCHANGED <<state, payload, futRes, futDirection, delay, new_motion,
                   profile, current_step, current_direction, dirPin,
                   overflowChecks, lastFail, call, taken, hwTouched, pulse,
                   started, conv, dirPending, dirFutures, dirRequests, nreq,
                   init0>>

\* the caller polls the future itself
FuturePoll(o) ==
    /\ pc = "future"
    /\ PollOnce(o)
    /\ result' = lastPoll'.res
    /\ UNCHANGED <<pc, iters>>

\* the caller calls StepFuture::wait
FutureWaitCall ==
    /\ pc = "future"
    /\ futPhase = "Finished" => repolls < MaxPolls
    /\ pc' = "waiting"
    /\ result' = "none"
    /\ iters' = 0
    /\ UNCHANGED <<state, payload, futRes, futPhase, futDirection, delay,
                   new_motion, profile, current_step, current_direction, stepPin,
                   dirPin, timer, overflowChecks, lastFail, lastPoll, call,
                   taken, hwTouched, pulse, started, conv, dirPending,
                   dirFutures, dirRequests, nreq, repolls, init0>>

\* one iteration of the loop of wait: return the result when poll is Ready
FutureWaitLoop(o) ==
    /\ pc = "waiting"
    /\ PollOnce(o)
    /\ IF lastPoll'.res \in {"ReadyOk", "ReadyErr"}
       THEN pc' = "future" /\ result' = lastPoll'.res
       ELSE pc' = "waiting" /\ result' = result
    /\ iters' = 1

\* StepFuture::release hands the resources back
FutureRelease ==
    /\ pc = "future"
    /\ pc' = "released"
    /\ payload' = StepFuture_release(futRes)
    /\ futRes' = {}
    /\ futPhase' = "None"
    /\ UNCHANGED <<state, futDirection, delay, new_motion, profile,
                   current_step, current_direction, stepPin, dirPin, timer,
                   overflowChecks, result, lastFail, lastPoll, call, iters,
                   taken, hwTouched, pulse, started, conv, dirPending,
                   dirFutures, dirRequests, nreq, repolls, init0>>

FutureNext ==
    \/ \E o \in StepOutcomes(futPhase) : FuturePoll(o)
    \/ FutureWaitCall
    \/ \E o \in StepOutcomes(futPhase) : FutureWaitLoop(o)
    \/ FutureRelease

\* the timer that wait() polls again and again reports expiry in the end
FutureFairness == WF_vars(FutureWaitLoop("Ok"))

FutureSpec == FutureInit /\ [][FutureNext]_vars /\ FutureFairness

(***************************************************************************)
(* Properties                                                              *)
(***************************************************************************)
\* a call of update has returned a value to the caller
Returned == pc = "caller" /\ result \notin {"none", "panic"}

\* the driver and the timer are each in exactly one place, the one the state's
\* variant says
Owned ==
    /\ payload \cap futRes = {}
    /\ payload \cup futRes = Resources
    /\ state \in {"Idle", "StepDelay"} => payload = Resources
    /\ state \in {"SetDirection", "Step"} => futRes = Resources

\* C1: whatever update returns, Ok or Err, the state it returns holds the driver
\* and the timer exactly once: in its payload (Idle, StepDelay) or in its future
\* (SetDirection, Step).
C1_ResourcesOwnedOnce ==
    Returned => (state \in {"Idle", "SetDirection", "Step", "StepDelay"} /\ Owned)

\* an Err return of the fallback path: the timer start for the rest of the delay
\* failed and the state is Idle with both resources
C1_Witness ==
    /\ Returned
    /\ result = "Err(StepDelay)" /\ lastFail.op = "timer.start"
    /\ state = "Idle" /\ payload = Resources

\* C2: the step counter changes only for a step whose STEP pin was driven high,
\* whose pulse timer reported expiry and whose STEP pin was driven low.
C2_CountOnlyAfterPulse ==
    pulse.counted => (pulse.high /\ pulse.expired /\ pulse.low)

\* C3: with no request injected, the direction never changes, and when update
\* returns Ok(false) the counter has moved by the number of delays the profile
\* held times the direction unit.
C3_StepsMatchProfile ==
    nreq = 0 =>
        /\ current_direction = init0.dir
        /\ (Returned /\ result = "Ok(false)") =>
               current_step = init0.step
                   + (IF init0.dir = "Forward" THEN init0.n ELSE -init0.n)

\* a backward run of two delays driven to completion
C3_Witness ==
    /\ nreq = 0 /\ Returned /\ result = "Ok(false)"
    /\ init0.n = 2 /\ init0.dir = "Backward"
    /\ current_step = -2

\* C4: a direction future is created only from Idle, for a request that differs
\* from the current direction, one per such request; the state leaves
\* SetDirection only for Idle and only when the future reported success; a step
\* future is created only from Idle, never while a direction future is pending
\* or has failed; and StepDelay, with its timer started, is entered only from
\* Step when the step future reported success.
C4_PhaseOrder ==
    /\ [](dirFutures = dirRequests)
    /\ [](dirPending <=> state = "SetDirection")
    /\ [][(state' = "SetDirection" /\ state # "SetDirection") =>
             /\ state = "Idle"
             /\ new_motion # None /\ Head(new_motion) # current_direction
             /\ new_motion' = None
             /\ futPhase' = "Initial"
             /\ dirFutures' = dirFutures + 1]_vars
    /\ [][(state = "SetDirection" /\ state' # "SetDirection") =>
             (state' = "Idle" /\ lastPoll'.res = "ReadyOk")]_vars
    /\ [][(state' = "Step" /\ state # "Step") =>
             (state = "Idle" /\ ~dirPending /\ futPhase' = "Initial")]_vars
    /\ [][(state' = "StepDelay" /\ state # "StepDelay") =>
             /\ state = "Step" /\ lastPoll'.res = "ReadyOk"
             /\ timer'.running]_vars
    /\ [][(state = "Step" /\ state' \notin {"Step", "Invalid"}) =>
             lastPoll'.res = "ReadyOk"]_vars

\* a step of the new direction has been made after the one direction change
C4_Witness ==
    /\ state = "StepDelay" /\ pulse.counted
    /\ dirFutures = 1 /\ current_direction # init0.dir
    /\ current_step = Direction_as_i32(current_direction)

\* C5: a call that finds Idle and a request for another direction d returns with
\* current_direction = d and the request None, whatever the direction future
\* reported.
C5_OptimisticDirection ==
    (/\ Returned
     /\ call.state = "Idle"
     /\ call.req # None /\ Head(call.req) # call.dir) =>
        /\ current_direction = Head(call.req)
        /\ new_motion = None

\* such a call returning the error of the direction future
C5_Witness ==
    /\ Returned
    /\ call.state = "Idle"
    /\ call.req # None /\ Head(call.req) # call.dir
    /\ result = "Err(SetDirection)"
    /\ current_direction = Head(call.req)

\* the call found Idle and a request for the direction that is current
SameDirectionCall ==
    /\ Returned
    /\ call.state = "Idle"
    /\ call.req # None /\ Head(call.req) = call.dir

\* C6, as claimed: after such a call the request is None, the state is still
\* Idle and the counter and the direction are unchanged.
C6_SameDirectionStaysIdle ==
    SameDirectionCall =>
        /\ new_motion = None
        /\ state = "Idle"
        /\ current_step = call.step
        /\ current_direction = call.dir

\* C6, amended: after such a call the request is None, the counter and the
\* direction are unchanged and no direction future was created; the state is
\* Idle (Ok(false)) when the profile yields nothing, and Step, with the delay
\* the profile yielded, when it yields one.
C6_SameDirectionNoOp ==
    SameDirectionCall =>
        /\ new_motion = None
        /\ current_step = call.step
        /\ current_direction = call.dir
        /\ IF call.profile = <<>>
           THEN state = "Idle" /\ result = "Ok(false)" /\ profile = <<>>
           ELSE /\ state = "Step"
                /\ delay = Some(Head(call.profile))
                /\ profile = Tail(call.profile)

\* such a call that went on to start the next step
C6_Witness ==
    /\ SameDirectionCall
    /\ state = "Step" /\ result = "Ok(true)"
    /\ new_motion = None

\* C7: a call that finds Idle, no request and a profile with nothing to yield
\* returns Ok(false) and Idle, changes neither counter nor direction, touches
\* no pin and no timer, and leaves the request None and the profile as it was,
\* so the next call finds the same.
C7_IdleStaysIdle ==
    (/\ pc = "caller" /\ result # "none"
     /\ call.state = "Idle" /\ call.req = None /\ call.profile = <<>>) =>
        /\ result = "Ok(false)"
        /\ state = "Idle" /\ payload = Resources
        /\ current_step = call.step
        /\ current_direction = call.dir
        /\ ~hwTouched
        /\ new_motion = None /\ profile = <<>>
        /\ iters = 1

\* a machine built with an empty profile and never given a request, after a call
C7_Witness ==
    /\ pc = "caller" /\ result = "Ok(false)"
    /\ init0.n = 0 /\ nreq = 0
    /\ call.state = "Idle" /\ call.req = None /\ call.profile = <<>>
    /\ current_step = 0 /\ stepPin = "low" /\ ~timer.running

\* C8: the iteration in which set_high or set_low fails returns Err(Error::Step)
\* with the pin error, leaves the state Step with the same future phase, delay
\* and resources, and leaves the counter alone; a step that is counted after
\* such an error, with no timer error in between, is a complete pulse (pin
\* driven high, timer expired, pin driven low and still low) counted as one
\* direction unit.
C8_PinErrorRetry ==
    /\ [][(pc = "loop" /\ state = "Step"
             /\ lastPoll'.op \in {"set_high", "set_low"}) =>
             /\ pc' = "caller" /\ result' = "Err(Step)"
             /\ lastFail'.inner = "Pin"
             /\ state' = "Step"
             /\ current_step' = current_step
             /\ futPhase' = futPhase /\ futPhase \in {"Initial", "PulseStarted"}
             /\ delay' = delay /\ futRes' = futRes]_vars
    /\ [][(pulse'.counted /\ ~pulse.counted
             /\ pulse'.pinErr # {} /\ ~pulse'.timerErr) =>
             /\ pulse'.high /\ pulse'.expired /\ pulse'.low
             /\ stepPin' = "low"
             /\ current_step' = current_step
                   + (IF current_direction = "Forward" THEN 1 ELSE -1)]_vars

\* a step completed after both pin writes had failed once
C8_Witness ==
    /\ pulse.counted /\ pulse.pinErr = {"set_high", "set_low"}
    /\ ~pulse.timerErr
    /\ stepPin = "low" /\ state = "StepDelay"

\* C9: when the pulse is finished and a conversion of delay_left or the timer
\* start for the rest of the delay fails, update returns that error with the
\* state Idle holding both resources and no delay; the call after it starts
\* from Idle, does not report such an error again, clears the request if there
\* is one and, with no new direction to set, asks the profile: Ok(false) when
\* it yields nothing, a step with the next delay when it yields one.
C9_FallbackToIdle ==
    /\ (pc = "caller" /\ FellBack) =>
          /\ state = "Idle" /\ payload = Resources /\ futRes = {}
          /\ delay = None /\ futPhase = "None"
          /\ pulse.counted
    /\ (Returned /\ call.afterFallback) =>
          /\ call.state = "Idle"
          /\ ~FellBack
          /\ new_motion = None
          /\ (call.req = None \/ Head(call.req) = call.dir) =>
                IF call.profile = <<>>
                THEN result = "Ok(false)" /\ state = "Idle"
                ELSE /\ state = "Step"
                     /\ delay = Some(Head(call.profile))
                     /\ profile = Tail(call.profile)

\* the call after a conversion failure has started the next step
C9_Witness ==
    /\ Returned /\ call.afterFallback
    /\ state = "Step" /\ result = "Ok(true)"
    /\ current_step = call.step

\* C10: the iteration in which the direction future reports an error returns
\* Err(Error::SetDirection) with the state SetDirection, and the one in which
\* timer.wait() of StepDelay reports a real error returns Err(Error::StepDelay)
\* with the state StepDelay; neither changes the counter, the direction, the
\* request, the profile or the place of the resources, so a call whose
\* first poll fails returns with all of them as it found them.
C10_ErrorKeepsState ==
    /\ [][(pc = "loop" /\ state = "SetDirection"
             /\ lastPoll'.res = "ReadyErr") =>
             /\ pc' = "caller" /\ result' = "Err(SetDirection)"
             /\ state' = "SetDirection"
             /\ UNCHANGED <<current_step, current_direction, new_motion,
                            profile, payload, futRes, futDirection>>]_vars
    /\ [][(pc = "loop" /\ state = "StepDelay"
             /\ lastPoll'.res = "WaitErr") =>
             /\ pc' = "caller" /\ result' = "Err(StepDelay)"
             /\ state' = "StepDelay"
             /\ UNCHANGED <<current_step, current_direction, new_motion,
                            profile, payload, futRes, timer>>]_vars
    /\ []((/\ Returned /\ iters = 1
           /\ \/ call.state = "SetDirection" /\ result = "Err(SetDirection)"
              \/ /\ call.state = "StepDelay" /\ result = "Err(StepDelay)"
                 /\ lastFail.op = "timer.wait") =>
             /\ state = call.state
             /\ current_step = call.step
             /\ current_direction = call.dir
             /\ new_motion = call.req
             /\ profile = call.profile)

\* a timer error reported from StepDelay by a call that began there
C10_Witness ==
    /\ Returned /\ result = "Err(StepDelay)" /\ lastFail.op = "timer.wait"
    /\ state = "StepDelay" /\ call.state = "StepDelay" /\ iters = 1
    /\ current_step = call.step /\ profile = call.profile

\* C11: Invalid is terminal.  Every iteration of update that finds the state
\* Invalid panics: the call hands no Ok and no Err to the caller, the state stays
\* Invalid, and the request, the profile, the counter and the direction are left
\* as they were; no step of the machine leads from Invalid to another state.
C11_InvalidIsTerminal ==
    /\ [][state = "Invalid" => state' = "Invalid"]_vars
    /\ [][(pc = "loop" /\ state = "Invalid") =>
             /\ pc' = "caller" /\ result' = "panic"
             /\ UNCHANGED <<new_motion, profile, current_step,
                            current_direction>>]_vars
    /\ []((pc = "caller" /\ result # "none" /\ call.state = "Invalid") =>
             /\ result = "panic" /\ ~Returned
             /\ state = "Invalid"
             /\ iters = 1
             /\ current_step = call.step
             /\ current_direction = call.dir
             /\ profile = call.profile
             /\ new_motion = call.req)

\* a call made with the state Invalid, and a request waiting, has panicked
C11_Witness ==
    /\ pc = "caller" /\ result = "panic"
    /\ call.state = "Invalid" /\ state = "Invalid"
    /\ call.req # None /\ new_motion = call.req

\* C12: whatever the pins, the timer, the conversions and the profile do, a
\* call of update made with a state other than Invalid never returns Invalid:
\* the state handed back with an Ok or an Err is Idle, SetDirection, Step or
\* StepDelay, and an iteration that returns a value does so with one of these.
C12_InvalidNeverReturned ==
    /\ [](Returned => state \in {"Idle", "SetDirection", "Step", "StepDelay"})
    /\ [][(pc = "loop" /\ state # "Invalid" /\ pc' = "caller"
             /\ result' # "panic") =>
             state' \in {"Idle", "SetDirection", "Step", "StepDelay"}]_vars
    /\ [][(state # "Invalid" /\ state' = "Invalid") => result' = "panic"]_vars

\* a call that began in Step has returned a conversion error, with Idle
C12_Witness ==
    /\ Returned /\ result = "Err(TimeConversion)"
    /\ call.state = "Step" /\ state = "Idle"
    /\ lastFail.inner = "NanosecondsToTicks"

\* C13: update returns Ok(false) only with the state Idle, the request None and
\* the profile having yielded nothing in that call; it returns Ok(true) only
\* with SetDirection, Step or StepDelay, whose future or timer has just
\* reported that it is not done.  So Ok(false) never comes with a pulse or a
\* delay in flight, and Ok(true) never with Idle.
C13_ResultMeaning ==
    /\ (Returned /\ result = "Ok(false)") =>
          /\ state = "Idle" /\ payload = Resources
          /\ futPhase = "None" /\ delay = None
          /\ new_motion = None
          /\ profile = <<>>
    /\ (Returned /\ result = "Ok(true)") =>
          /\ state \in {"SetDirection", "Step", "StepDelay"}
          /\ state = "SetDirection" =>
                (lastPoll.res = "Pending" /\ futPhase = "DirectionSet")
          /\ state = "Step" =>
                (lastPoll.res = "Pending" /\ futPhase = "PulseStarted")
          /\ state = "StepDelay" => lastPoll.res = "WouldBlock"

\* a call returning Ok(true) from StepDelay after the step was counted in it
C13_Witness ==
    /\ Returned /\ result = "Ok(true)"
    /\ state = "StepDelay" /\ lastPoll.res = "WouldBlock"
    /\ call.state = "Step" /\ current_step # call.step

C15_NoSilentWrap ==
    conv # NoConv =>
        LET dt == conv.d * TicksPerDelayUnit
            pt == PULSE_LENGTH \div NanosPerTick
        IN  /\ (conv.cd = "Ok" /\ conv.cp = "Ok" /\ pt > dt) =>
                  \/ conv.tag = "Ok" /\ conv.ticks = 0
                  \/ conv.tag \notin {"Ok", "Panic"}
            /\ (state = "StepDelay" /\ conv.tag = "Ok") => timer.ticks <= dt

\* C16: with nothing failing, for every step whose delay is at least the pulse
\* length in ticks the timer is started exactly twice: with the ticks of
\* PULSE_LENGTH by the step future, then, when the pulse is over, with the
\* ticks of the delay minus those of PULSE_LENGTH; the two add up to the ticks
\* of the delay.  No call returns an error, and a forward run of a profile of
\* two delays from counter 0 ends in Idle with the counter at 2.
C16_PulseThenRemainder ==
    LET dt == conv.d * TicksPerDelayUnit
        pt == PULSE_LENGTH \div NanosPerTick
    IN  /\ state = "Step" => started \in {<<>>, <<pt>>}
        /\ (state = "StepDelay" /\ conv # NoConv /\ dt >= pt) =>
              /\ started = <<pt, dt - pt>>
              /\ started[1] + started[2] = dt
              /\ timer = [running |-> TRUE, ticks |-> dt - pt]
        /\ result \in {"none", "Ok(true)", "Ok(false)", "panic"}
        /\ (Returned /\ result = "Ok(false)" /\ nreq = 0
               /\ init0.n = 2 /\ init0.dir = "Forward") =>
              /\ state = "Idle" /\ current_step = 2
              /\ Len(started) = 2 /\ started[1] = pt

\* the second step of a forward run, of a delay of 1000 ticks: a pulse of 100
\* ticks, then a wait of 900
C16_Witness ==
    /\ Returned /\ result = "Ok(true)" /\ state = "StepDelay"
    /\ conv.d = 100 /\ started = <<100, 900>>
    /\ init0.dir = "Forward" /\ init0.n = 2 /\ nreq = 0
    /\ current_step = 2

\* the place of a phase in the order Initial, PulseStarted, Finished
PhaseRank(phase) ==
    CASE phase = "Initial" -> 0
      [] phase = "PulseStarted" -> 1
      [] OTHER -> 2

\* C17: a poll of a step future in phase Initial never reports Ready success;
\* when it starts the timer it has driven STEP high first, starts it with the
\* ticks of PULSE_LENGTH and reports Pending with the phase PulseStarted.  STEP
\* is written low only in a poll in which timer.wait() reported expiry before,
\* made in phase PulseStarted.  The phase never moves backward.
C17_MinimumPulseWidth ==
    /\ [][futPhase = "Initial" =>
             /\ lastPoll'.res # "ReadyOk"
             /\ futPhase' # "Finished"
             /\ (timer' # timer \/ futPhase' = "PulseStarted") =>
                   /\ lastPoll'.log = <<<<"set_high", "ok">>,
                                        <<"timer.start", "ok">>>>
                   /\ stepPin' = "high"
                   /\ timer' = [running |-> TRUE,
                                ticks |-> PULSE_LENGTH \div NanosPerTick]
                   /\ futPhase' = "PulseStarted"
                   /\ lastPoll'.res = "Pending"]_vars
    /\ [][(stepPin = "high" /\ stepPin' = "low") =>
             /\ futPhase = "PulseStarted"
             /\ lastPoll'.log = <<<<"timer.wait", "ok">>, <<"set_low", "ok">>>>
             /\ ~timer'.running]_vars
    /\ []((\E i \in 1..Len(lastPoll.log) : lastPoll.log[i][1] = "set_low") =>
             lastPoll.log[1] = <<"timer.wait", "ok">>)
    /\ [][futPhase' \in {"Initial", "PulseStarted", "Finished"} =>
             PhaseRank(futPhase') >= PhaseRank(futPhase)]_vars

\* a complete pulse: the poll that saw the timer expire drove STEP low
C17_Witness ==
    /\ futPhase = "Finished" /\ stepPin = "low"
    /\ lastPoll.res = "ReadyOk"
    /\ lastPoll.log = <<<<"timer.wait", "ok">>, <<"set_low", "ok">>>>
    /\ timer = [running |-> FALSE, ticks |-> PULSE_LENGTH \div NanosPerTick]

\* C18: every poll of a step future whose phase is Finished reports Ready
\* success, leaves the phase Finished, writes no pin and does nothing with the
\* timer, however often it is repeated and whichever way the future finished.
C18_FinishedIsIdempotent ==
    /\ [][(futPhase = "Finished" /\ repolls' # repolls) =>
             /\ lastPoll'.res = "ReadyOk"
             /\ lastPoll'.log = <<>>
             /\ pc' = "future" /\ result' = "ReadyOk"
             /\ futPhase' = "Finished"
             /\ stepPin' = stepPin
             /\ timer' = timer]_vars
    /\ [][futPhase = "Finished" =>
             /\ futPhase' \in {"Finished", "None"}
             /\ stepPin' = stepPin
             /\ timer' = timer]_vars
    /\ []((futPhase = "Finished" /\ repolls > 0) =>
             (lastPoll.res = "ReadyOk" /\ lastPoll.log = <<>>))

\* a future that finished on a timer error, STEP still high, polled twice more
C18_Witness ==
    /\ futPhase = "Finished" /\ repolls >= 2
    /\ lastPoll.res = "ReadyOk" /\ lastPoll.log = <<>>
    /\ stepPin = "high" /\ timer.running

\* C19: a call of update ends within five iterations of its loop, because the
\* first poll of a future that was just created reports Pending or an error,
\* never Ready success, and so ends the call.  Within one call the profile
\* yields at most one delay, the counter moves by at most one unit of a
\* direction, and at most one request is consumed.
C19_BoundedWork ==
    /\ [](iters <= 5)
    /\ [][(pc = "loop" /\ state \in {"SetDirection", "Step"}
             /\ futPhase = "Initial") =>
             /\ lastPoll'.res \in {"Pending", "ReadyErr"}
             /\ pc' = "caller"
             /\ state' = state]_vars
    /\ [](/\ Len(call.profile) - Len(profile) \in {0, 1}
          /\ current_step - call.step \in {-1, 0, 1}
          /\ taken \in {0, 1}
          /\ (taken = 1 /\ pc # "requested") =>
                (call.req # None /\ new_motion = None))

\* the longest call: it ends a pulse, waits out the delay, consumes a request,
\* takes the next delay and starts its pulse
C19_Witness ==
    /\ Returned /\ result = "Ok(true)"
    /\ iters = 5 /\ taken = 1
    /\ call.state = "Step" /\ state = "Step" /\ futPhase = "PulseStarted"
    /\ current_step # call.step
    /\ Len(call.profile) = Len(profile) + 1

\* update has returned Ok(false) with the state Idle
Done == Returned /\ result = "Ok(false)" /\ state = "Idle"

\* C20: when every started timer expires in the end, no pin, timer or
\* conversion operation fails, the profile is finite and the requests stop,
\* calling update again and again leads to a call that returns Ok(false) with
\* the state Idle.
C20_EventuallyDone == <>Done

\* the same, for a build whose tick subtraction wraps instead of panicking
EventuallyDoneWhenWrapping == overflowChecks \/ <>Done

\* the rest of the liveness claim, on StepFuture::wait: a wait that was called
\* returns, it returns only in an iteration whose poll was Ready, and while
\* the timer reports WouldBlock it stays in its loop
WaitReturns ==
    /\ (pc = "waiting") ~> (pc = "future" /\ result \in {"ReadyOk", "ReadyErr"})
    /\ [][(pc = "waiting" /\ pc' # "waiting") =>
             (lastPoll'.res \in {"ReadyOk", "ReadyErr"}
                /\ result' = lastPoll'.res)]_vars
    /\ [][(pc = "waiting" /\ lastPoll'.log = <<<<"timer.wait", "block">>>>) =>
             pc' = "waiting"]_vars

====
